---------------------------- MODULE Spec2Model ----------------------------
(***************************************************************************)
(* Model of the TON transfer service                                       *)
(* (packages/core/src/service/transfer/tonService.ts), specification Spec, *)
(* and of the wallet-version settings page                                 *)
(* (packages/uikit/src/pages/settings/Version.tsx), specification          *)
(* VersionSpec.  Each specification leaves the other part's variables      *)
(* untouched.                                                              *)
(*                                                                         *)
(* One call of a transfer operation is in flight at a time.  Every `await` *)
(* of an operation is one step; the synchronous code that follows an       *)
(* awaited answer (gates, message construction) belongs to the step that   *)
(* receives the answer.  The remote API is the environment: each remote    *)
(* call is answered with any value of its range, or fails.                 *)
(*                                                                         *)
(* A batch of messages is a bag (message :> number of copies): the code    *)
(* reads a batch only through its length, the sum of its amounts and a     *)
(* per-message map, none of which depends on the order.                    *)
(***************************************************************************)
EXTENDS Integers, Sequences, FiniteSets, Bags, TLC

(***************************** bounds **************************************)
MaxBalance == 3
MaxSeqno == 1
MaxAmount == 2
MaxFee == 1
\* batch sizes 1..MaxBatch and, around every ceiling c, c .. c + MaxOver
MaxBatch == 2
MaxOver == 1

(************************* JavaScript values *******************************)
JsTrue == "true"
JsFalse == "false"
JsUndefined == "undefined"

JsBool(b) == IF b THEN JsTrue ELSE JsFalse

\* a || b on the values above
JsOr(a, b) == IF a = JsTrue THEN a ELSE b

(****************************** addresses **********************************)
\* One account written three ways: raw, friendly with the bounceable flag,
\* friendly with the non-bounceable flag.
RawAddr == "0:raw"
FriendlyBounceable == "EQ"
FriendlyNonBounceable == "UQ"
Addresses == {RawAddr, FriendlyBounceable, FriendlyNonBounceable}

AddressIsFriendly(address) == address \in {FriendlyBounceable, FriendlyNonBounceable}

AddressParseFriendlyIsBounceable(address) == address = FriendlyBounceable

AccountStatus == {"active", "uninit"}

\* faulty variant: a raw address taken as non-bounceable (the TonWeb default)
seeIfAddressBounceableRawNon(address) ==
    IF AddressIsFriendly(address) THEN AddressParseFriendlyIsBounceable(address) ELSE FALSE

seeIfAddressBounceable(address) ==
    IF AddressIsFriendly(address) THEN AddressParseFriendlyIsBounceable(address) ELSE TRUE

\* accounts: a function from a set of addresses to account statuses
seeIfBounceable(accounts, address) ==
    LET bounceableAddress == JsBool(seeIfAddressBounceable(address))
        activeContract == IF address \in DOMAIN accounts
                          THEN JsBool(accounts[address] = "active")
                          ELSE JsUndefined
    IN  JsOr(bounceableAddress, activeContract)

\* faulty variant: a non-bounceable address bounces once its account is active, and
\* a bounceable one always
seeIfTransferBounceableLikeBatch(account, recipient) ==
    IF recipient.dns THEN FALSE
    ELSE seeIfAddressBounceable(recipient.address) \/ account.status = "active"

\* recipient: [dns |-> BOOLEAN, address |-> address]; account: [status |-> ..]
seeIfTransferBounceable(account, recipient) ==
    IF recipient.dns THEN FALSE
    ELSE IF ~seeIfAddressBounceable(recipient.address) THEN FALSE
    ELSE account.status = "active"

(****************************** send modes *********************************)
CARRY_ALL_REMAINING_BALANCE == 128
PAY_GAS_SEPARATELY == 1
IGNORE_ERRORS == 2

HasFlag(mode, flag) == (mode \div flag) % 2 = 1

(******************************** bags *************************************)
RECURSIVE SumWeiOver(_, _)
SumWeiOver(B, S) ==
    IF S = {} THEN 0
    ELSE LET x == CHOOSE y \in S : TRUE
         IN  B[x] * x.weiAmount + SumWeiOver(B, S \ {x})

\* the bag of f[x], x in the bag B: Array.prototype.map up to order
MapBag(f, B) ==
    [m \in {f[x] : x \in DOMAIN B} |->
        BagCardinality([x \in {y \in DOMAIN B : f[y] = m} |-> B[x]])]

RECURSIVE SumAmountOver(_, _)
SumAmountOver(B, S) ==
    IF S = {} THEN 0
    ELSE LET x == CHOOSE y \in S : TRUE
         IN  B[x] * x.amount + SumAmountOver(B, S \ {x})

\* k copies of the message m
Copies(m, k) == [x \in {m} |-> k]

(************************** wallet versions ********************************)
WalletVersion == {"W5", "V4R2", "V4R1", "V3R2", "V3R1"}

\* faulty variant: one ceiling off by one
MAX_ALLOWED_WALLET_MSGS_OffByOne ==
    [v \in WalletVersion |-> IF v = "W5" THEN 255 ELSE IF v = "V3R1" THEN 5 ELSE 4]

MAX_ALLOWED_WALLET_MSGS ==
    [v \in WalletVersion |-> IF v = "W5" THEN 255 ELSE 4]

(******************* gates of ./common (not in src/) ***********************)
ZeroKey == "Buffer.alloc(64)"

\* mnemonicToPrivateKey(mnemonic).secretKey
SecretKeyOf(mnemonic) == <<"secretKey", mnemonic>>

\* not-enough-balance when total >= balance; otherwise passes
checkWalletBalanceOrDie(total, wallet) ==
    IF total >= wallet.balance THEN "not-enough-balance" ELSE "ok"

\* the balance must be positive
checkWalletPositiveBalanceOrDie(wallet) ==
    IF wallet.balance <= 0 THEN "not-enough-balance" ELSE "ok"

checkMaxAllowedMessagesInMultiTransferOrDie(messagesNumber, walletVersion) ==
    IF messagesNumber > MAX_ALLOWED_WALLET_MSGS[walletVersion]
    THEN "too-many-messages" ELSE "ok"

\* the first gate that fails, in the order written
FirstFailure(gates) ==
    IF \E i \in 1..Len(gates) : gates[i] # "ok"
    THEN gates[CHOOSE i \in 1..Len(gates) :
                  gates[i] # "ok" /\ \A j \in 1..(i - 1) : gates[j] = "ok"]
    ELSE "ok"

(*************************** construction **********************************)
\* externalMessage(contract, seqno, transfer).toBoc(..): the envelope
Boc(version, seqno, secretKey, sendMode, messages, idx) ==
    [version |-> version, seqno |-> seqno, secretKey |-> secretKey,
     sendMode |-> sendMode, messages |-> messages, idx |-> idx]

\* buffer.toString('base64')
Base64(boc) == [base64 |-> boc]

Internal(to, bounce, value) == [to |-> to, bounce |-> bounce, value |-> value]

\* faulty variant: the normal transfer without the ignore-errors flag
SingleSendModeNoIgnore(isMax) ==
    IF isMax THEN CARRY_ALL_REMAINING_BALANCE + IGNORE_ERRORS
    ELSE PAY_GAS_SEPARATELY

SingleSendMode(isMax) ==
    IF isMax THEN CARRY_ALL_REMAINING_BALANCE + IGNORE_ERRORS
    ELSE PAY_GAS_SEPARATELY + IGNORE_ERRORS

createTonTransfer(seqno, walletState, recipient, weiAmount, isMax, secretKey) ==
    Boc(walletState.version, seqno, secretKey, SingleSendMode(isMax),
        Copies(Internal(recipient.toAccount.address,
                        JsBool(seeIfTransferBounceable(recipient.toAccount,
                                                       recipient.address)),
                        weiAmount), 1),
        TRUE)

ConnectSendMode == PAY_GAS_SEPARATELY + IGNORE_ERRORS

\* contract.createTransfer belongs to the wallet SDK, outside the repository:
\* it may accept or reject a batch longer than the contract can carry.
CreateTransferOutcomes(walletState, messages) ==
    IF BagCardinality(messages) > MAX_ALLOWED_WALLET_MSGS[walletState.version]
    THEN {"built", "sdk-rejected"} ELSE {"built"}

\* faulty variant: the sequence number of a fresh wallet instead of the one given
createTonConnectTransferSeqnoZero(seqno, walletState, accounts, params, secretKey) ==
    LET item2internal ==
            [item \in DOMAIN params.messages |->
                Internal(item.address, seeIfBounceable(accounts, item.address),
                         item.amount)]
    IN  Boc(walletState.version, 0, secretKey, ConnectSendMode,
            MapBag(item2internal, params.messages), FALSE)

createTonConnectTransfer(seqno, walletState, accounts, params, secretKey) ==
    LET item2internal ==
            [item \in DOMAIN params.messages |->
                Internal(item.address, seeIfBounceable(accounts, item.address),
                         item.amount)]
    IN  Boc(walletState.version, seqno, secretKey, ConnectSendMode,
            MapBag(item2internal, params.messages), FALSE)

MultiSendMode == PAY_GAS_SEPARATELY + IGNORE_ERRORS

createTonMultiTransfer(seqno, walletState, transferMessages, secretKey) ==
    LET msg2internal ==
            [msg \in DOMAIN transferMessages |->
                Internal(msg.to, JsBool(msg.bounce), msg.weiAmount)]
    IN  Boc(walletState.version, seqno, secretKey, MultiSendMode,
            MapBag(msg2internal, transferMessages), TRUE)

(****************************** operations *********************************)
EstimateOps == {"estimateTonTransfer", "estimateTonConnectTransfer",
                "estimateTonMultiTransfer"}
SendOps == {"sendTonTransfer", "sendTonConnectTransfer", "sendTonMultiTransfer"}
SingleOps == {"estimateTonTransfer", "sendTonTransfer"}
ConnectOps == {"estimateTonConnectTransfer", "sendTonConnectTransfer"}
MultiOps == {"estimateTonMultiTransfer", "sendTonMultiTransfer"}
Ops == EstimateOps \cup SendOps
\* with the TonConnect pre-flight check
Operations == Ops \cup {"tonConnectTransferError"}

\* the awaits of each operation, in the order of its body
estimateTonTransferSteps == <<"time", "balance", "emulate">>
estimateTonConnectTransferSteps == <<"time", "balance", "emulate">>
estimateTonMultiTransferSteps == <<"time", "balance", "emulate">>
sendTonConnectTransferSteps == <<"time", "key", "seqno", "broadcast">>
\* faulty variant: the time check after the balance fetch
sendTonTransferStepsTimeLate == <<"key", "balance", "time", "broadcast">>
sendTonTransferSteps == <<"time", "key", "balance", "broadcast">>
sendTonMultiTransferSteps == <<"time", "key", "balance", "broadcast">>
tonConnectTransferErrorSteps == <<"sync", "account">>

Steps(o) ==
    CASE o = "estimateTonTransfer" -> estimateTonTransferSteps
      [] o = "estimateTonConnectTransfer" -> estimateTonConnectTransferSteps
      [] o = "estimateTonMultiTransfer" -> estimateTonMultiTransferSteps
      [] o = "sendTonConnectTransfer" -> sendTonConnectTransferSteps
      [] o = "sendTonTransfer" -> sendTonTransferSteps
      [] o = "sendTonMultiTransfer" -> sendTonMultiTransferSteps
      [] o = "tonConnectTransferError" -> tonConnectTransferErrorSteps

(******************************* inputs ************************************)
Recipients ==
    {[address |-> [dns |-> d, address |-> a],
      toAccount |-> [address |-> RawAddr, status |-> s]] :
        d \in BOOLEAN, a \in Addresses, s \in AccountStatus}

Amounts == 0..MaxAmount
\* the 'extra' of an estimation event: minus the fee, or a refund
Extras == (-MaxFee)..MaxFee
EmulationEvents == {[extra |-> -f] : f \in 0..MaxFee}
FeeEvents == {[event |-> [extra |-> x]] : x \in Extras}

BatchCounts ==
    (1..MaxBatch) \cup
    {MAX_ALLOWED_WALLET_MSGS[v] + d : v \in WalletVersion, d \in 0..MaxOver}

TransferMessages ==
    {[to |-> RawAddr, bounce |-> b, weiAmount |-> w] : b \in BOOLEAN, w \in Amounts}

\* k copies of one message, or two different messages
MultiBatches ==
    {Copies(m, k) : m \in TransferMessages, k \in BatchCounts}
    \cup {Copies(m1, 1) (+) Copies(m2, 1) : m1, m2 \in TransferMessages}

ConnectMessages == {[address |-> a, amount |-> w] : a \in Addresses, w \in Amounts}

ConnectBatches ==
    {Copies(m, k) : m \in ConnectMessages, k \in BatchCounts}
    \cup {Copies(m1, 1) (+) Copies(m2, 1) : m1, m2 \in ConnectMessages}

\* the accounts map of a TonConnect request: some of the payload's addresses
\* (getAccountsMap gives all of them), each with its status
AccountsMaps(batch) ==
    LET used == {m.address : m \in DOMAIN batch}
    IN  UNION {[D -> AccountStatus] : D \in SUBSET used}

Mnemonics == {"mnemonic"}

NoRecipient ==
    [address |-> [dns |-> FALSE, address |-> RawAddr],
     toAccount |-> [address |-> RawAddr, status |-> "uninit"]]
NoFee == [event |-> [extra |-> 0]]
EmptyBatch == [m \in {} |-> 0]
EmptyMap == [a \in {} |-> "uninit"]

Args(v, r, w, mx, fee, tm, fe, acc, params) ==
    [walletState |-> [version |-> v, rawAddress |-> RawAddr],
     recipient |-> r, weiAmount |-> w, isMax |-> mx, fee |-> fee,
     transferMessages |-> tm, feeEstimate |-> fe,
     accounts |-> acc, params |-> [messages |-> params]]

NoArgs == Args("W5", NoRecipient, 0, FALSE, NoFee, EmptyBatch, 0, EmptyMap, EmptyBatch)

ArgsOf(o) ==
    CASE o = "estimateTonTransfer" ->
            {Args(v, r, w, mx, NoFee, EmptyBatch, 0, EmptyMap, EmptyBatch) :
                v \in WalletVersion, r \in Recipients, w \in Amounts, mx \in BOOLEAN}
      [] o = "sendTonTransfer" ->
            UNION {{Args(v, r, w, mx, fee, EmptyBatch, 0, EmptyMap, EmptyBatch) :
                      v \in WalletVersion, r \in Recipients, w \in Amounts,
                      mx \in BOOLEAN} : fee \in FeeEvents}
      [] o = "estimateTonMultiTransfer" ->
            {Args(v, NoRecipient, 0, FALSE, NoFee, tm, 0, EmptyMap, EmptyBatch) :
                v \in WalletVersion, tm \in MultiBatches}
      [] o = "sendTonMultiTransfer" ->
            {Args(v, NoRecipient, 0, FALSE, NoFee, tm, fe, EmptyMap, EmptyBatch) :
                v \in WalletVersion, tm \in MultiBatches, fe \in 0..MaxFee}
      [] o \in ConnectOps ->
            UNION {{Args(v, NoRecipient, 0, FALSE, NoFee, EmptyBatch, 0, acc, b) :
                      v \in WalletVersion, acc \in AccountsMaps(b)} :
                   b \in ConnectBatches}
      [] o = "tonConnectTransferError" ->
            {Args(v, NoRecipient, 0, FALSE, NoFee, EmptyBatch, 0, EmptyMap, b) :
                v \in WalletVersion, b \in ConnectBatches}

(************************* gates and results ********************************)
multiTransferTotal(transferMessages) ==
    SumWeiOver(transferMessages, DOMAIN transferMessages)

\* faulty variant: the fee not negated
sendTonTransferTotalNotNegated(fee, weiAmount) == fee.event.extra + weiAmount
sendTonTransferTotal(fee, weiAmount) == fee.event.extra * (-1) + weiAmount

\* faulty variant: the positive-balance check applied to send-max too
estimateTonTransferGateAlways(a, w) == checkWalletPositiveBalanceOrDie(w)
estimateTonTransferGate(a, w) ==
    IF ~a.isMax THEN checkWalletPositiveBalanceOrDie(w) ELSE "ok"

estimateTonConnectTransferGate(a, w) == checkWalletPositiveBalanceOrDie(w)

\* faulty variant: the message count checked before the balance
estimateTonMultiTransferGateCountFirst(a, w) ==
    FirstFailure(<<
        checkMaxAllowedMessagesInMultiTransferOrDie(
            BagCardinality(a.transferMessages), a.walletState.version),
        checkWalletBalanceOrDie(multiTransferTotal(a.transferMessages), w)>>)

estimateTonMultiTransferGate(a, w) ==
    FirstFailure(<<
        checkWalletBalanceOrDie(multiTransferTotal(a.transferMessages), w),
        checkMaxAllowedMessagesInMultiTransferOrDie(
            BagCardinality(a.transferMessages), a.walletState.version)>>)

sendTonConnectTransferGate(a, w) == "ok"

\* faulty variant: the balance check applied to send-max only
sendTonTransferGateInverted(a, w) ==
    IF a.isMax
    THEN checkWalletBalanceOrDie(sendTonTransferTotal(a.fee, a.weiAmount), w)
    ELSE "ok"

sendTonTransferGate(a, w) ==
    IF ~a.isMax
    THEN checkWalletBalanceOrDie(sendTonTransferTotal(a.fee, a.weiAmount), w)
    ELSE "ok"

sendTonMultiTransferGate(a, w) ==
    FirstFailure(<<
        checkWalletBalanceOrDie(
            multiTransferTotal(a.transferMessages) + a.feeEstimate, w),
        checkMaxAllowedMessagesInMultiTransferOrDie(
            BagCardinality(a.transferMessages), a.walletState.version)>>)

\* the synchronous checks between the fetch and the construction
Gate(o, a, w) ==
    CASE o = "estimateTonTransfer" -> estimateTonTransferGate(a, w)
      [] o = "estimateTonConnectTransfer" -> estimateTonConnectTransferGate(a, w)
      [] o = "estimateTonMultiTransfer" -> estimateTonMultiTransferGate(a, w)
      [] o = "sendTonConnectTransfer" -> sendTonConnectTransferGate(a, w)
      [] o = "sendTonTransfer" -> sendTonTransferGate(a, w)
      [] o = "sendTonMultiTransfer" -> sendTonMultiTransferGate(a, w)

\* the secret key each operation hands to construction
EstimateKey(k) == ZeroKey
SendKey(k) == k

Build(o, a, sq, k) ==
    CASE o = "estimateTonTransfer" ->
            createTonTransfer(sq, a.walletState, a.recipient, a.weiAmount,
                              a.isMax, EstimateKey(k))
      [] o = "estimateTonConnectTransfer" ->
            createTonConnectTransfer(sq, a.walletState, a.accounts, a.params,
                                     EstimateKey(k))
      [] o = "estimateTonMultiTransfer" ->
            createTonMultiTransfer(sq, a.walletState, a.transferMessages,
                                   EstimateKey(k))
      [] o = "sendTonConnectTransfer" ->
            createTonConnectTransfer(sq, a.walletState, a.accounts, a.params,
                                     SendKey(k))
      [] o = "sendTonTransfer" ->
            createTonTransfer(sq, a.walletState, a.recipient, a.weiAmount,
                              a.isMax, SendKey(k))
      [] o = "sendTonMultiTransfer" ->
            createTonMultiTransfer(sq, a.walletState, a.transferMessages,
                                   SendKey(k))

\* the messages the operation hands to contract.createTransfer
MessagesOf(o, a) ==
    CASE o \in SingleOps -> Copies(a.recipient, 1)
      [] o \in ConnectOps -> a.params.messages
      [] o \in MultiOps -> a.transferMessages

JsValue(type, v) == [type |-> type, v |-> v]
Undefined == JsValue("undefined", 0)

estimateTonTransferReturn(event) == JsValue("object", [event |-> event])
estimateTonConnectTransferReturn(event) == JsValue("object", [event |-> event])
estimateTonMultiTransferReturn(event) == JsValue("event", event)
\* faulty variant: true returned instead of the text
sendTonConnectTransferReturnTrue(boc) == JsValue("boolean", TRUE)
sendTonConnectTransferReturn(boc) == JsValue("string", boc)
sendTonTransferReturn(boc) == Undefined
sendTonMultiTransferReturn(boc) == JsValue("boolean", TRUE)

\* what the operation returns: x is the emulation's answer (estimation) or the
\* base64 text that was broadcast (submission)
ReturnValue(o, x) ==
    CASE o = "estimateTonTransfer" -> estimateTonTransferReturn(x)
      [] o = "estimateTonConnectTransfer" -> estimateTonConnectTransferReturn(x)
      [] o = "estimateTonMultiTransfer" -> estimateTonMultiTransferReturn(x)
      [] o = "sendTonConnectTransfer" -> sendTonConnectTransferReturn(x)
      [] o = "sendTonTransfer" -> sendTonTransferReturn(x)
      [] o = "sendTonMultiTransfer" -> sendTonMultiTransferReturn(x)

\* the sum of the amounts of the payload's messages
tonConnectTransferTotal(params) ==
    SumAmountOver(params.messages, DOMAIN params.messages)

ConnectTransferError(kind) == JsValue("object", [kind |-> kind])

\* faulty variant: a total equal to the balance let through
tonConnectTransferErrorKindStrict(total, balance) ==
    IF total > balance THEN "not-enough-balance" ELSE JsUndefined

\* the kind returned once the service time is in sync
tonConnectTransferErrorKind(total, balance) ==
    IF total >= balance THEN "not-enough-balance" ELSE JsUndefined

\* faulty variant: the signature checked by the emulation
EmulateRequestSignatureChecked(o, w, c) ==
    [ignoreSignatureCheck |-> FALSE, accountId |-> w.address, boc |-> Base64(c)]

EmulateRequest(o, w, c) ==
    [ignoreSignatureCheck |-> TRUE, accountId |-> w.address, boc |-> Base64(c)]

BroadcastRequest(o, c) == [boc |-> Base64(c)]

(*********************** the wallet-version page ***************************)
\* the versions useStandardTonWalletVersions lists for the account's key
ListedVersions == {"W5", "V4R2", "V4R1"}
AccountTypes == {"mnemonic", "ledger", "keystone"}
MaxTonBalance == 1

\* the contract address of a version under the account's public key
AddressOf(version) == [workchain |-> 0, hash |-> version]
toRawString(address) == <<address.workchain, ":", address.hash>>

\* an attached wallet of the account, and a listed one
TonWallet(version) ==
    [version |-> version, rawAddress |-> toRawString(AddressOf(version))]
StandardTonWallet(version, tonBalance, hasJettons) ==
    [version |-> version, address |-> AddressOf(version),
     tonBalance |-> tonBalance, hasJettons |-> hasJettons]

\* every answer of the query: one entry per listed version
StandardTonWalletVersions ==
    {{StandardTonWallet(v, f[v][1], f[v][2]) : v \in ListedVersions} :
        f \in [ListedVersions -> (0..MaxTonBalance) \X BOOLEAN]}

\* the accounts the page can be opened for: at least one attached wallet, one
\* of them the active one
Accounts ==
    UNION {{[type |-> t,
             activeDerivationTonWallets |-> {TonWallet(v) : v \in S},
             activeTonWallet |-> TonWallet(a)] : t \in AccountTypes, a \in S} :
           S \in (SUBSET ListedVersions) \ {{}}}

NotLoaded == [loaded |-> FALSE, list |-> {}]
Loaded(list) == [loaded |-> TRUE, list |-> list]

\* a mutation hook: idle, then loading, then success or error; it keeps the
\* variables of its latest call
Mutation(status, kind, version) ==
    [status |-> status, kind |-> kind, version |-> version,
     walletId |-> toRawString(AddressOf(version))]
NoMutation == Mutation("idle", "none", "W5")

(******************************** state ************************************)
VARIABLES
    op,       \* the operation in flight, "idle" when none
    pc,       \* the index in Steps(op) of the await to come, 0 when idle
    args,     \* the arguments of the call
    keyPair,  \* the derived secret key, NoKey before the derivation
    wallet,   \* the account fetched by getWalletBalance, NoWallet before
    seqno,    \* the fetched sequence number, -1 before
    cell,     \* the constructed envelope, NoCell before construction
    log,      \* the remote calls of this call, in order, with their answers
    result,   \* what the call gave its caller
    estimated, \* history, kept up to the end of the submission that follows an
               \* estimation: the sequence number that estimation fetched, -1
               \* otherwise (the code keeps no such value)
    account,   \* the selected account of the wallet-version page
    compatOnly, \* backwardCompatibilityOnlyWalletVersions
    wallets,   \* the answer of useStandardTonWalletVersions, NotLoaded before
    mutation,  \* the latest select, create or hide mutation, NoMutation if none
    route      \* the route shown: the wallet-version page or home

transfer == <<op, pc, args, keyPair, wallet, seqno, cell, log, result, estimated>>
page == <<account, compatOnly, wallets, mutation, route>>
vars == <<transfer, page>>

NoKey == "no-key"
NoWallet == [address |-> "none", balance |-> 0]
NoCell == Boc("W5", -1, NoKey, 0, EmptyBatch, FALSE)

NoResult == [kind |-> "none", error |-> "", value |-> Undefined]
Pending == [kind |-> "pending", error |-> "", value |-> Undefined]
Thrown(e) == [kind |-> "thrown", error |-> e, value |-> Undefined]
Returned(v) == [kind |-> "returned", error |-> "", value |-> v]

\* a remote call: ok says whether it was answered, ret is the answer
Remote(api, req, ok, ret) == [api |-> api, req |-> req, ok |-> ok, ret |-> ret]

\* no transfer operation in flight
NoCall ==
    /\ op = "idle"
    /\ pc = 0
    /\ args = NoArgs
    /\ keyPair = NoKey
    /\ wallet = NoWallet
    /\ seqno = -1
    /\ cell = NoCell
    /\ log = <<>>
    /\ result = NoResult
    /\ estimated = -1

\* the wallet-version page not mounted
PageUnmounted ==
    /\ account = [type |-> "mnemonic",
                  activeDerivationTonWallets |-> {TonWallet("W5")},
                  activeTonWallet |-> TonWallet("W5")]
    /\ compatOnly = {}
    /\ wallets = NotLoaded
    /\ mutation = NoMutation
    /\ route = "home"

Init == NoCall /\ PageUnmounted

Running == result.kind = "pending"
AtStep(name) == Running /\ Steps(op)[pc] = name

\* a caller invokes operation o
Call(o) ==
    /\ op = "idle"
    /\ \E a \in ArgsOf(o) :
        /\ op' = o
        /\ args' = a
        /\ pc' = 1
        /\ result' = Pending
    /\ estimated' = IF o \in SendOps THEN estimated ELSE -1
    /\ UNCHANGED <<keyPair, wallet, seqno, cell, log>>
    /\ UNCHANGED page

\* await checkServiceTimeOrDie(api)
CheckServiceTimeOrDie ==
    /\ AtStep("time")
    /\ \E answer \in {"synced", "desync", "failed"} :
        /\ log' = Append(log, Remote("time", "-", answer # "failed", answer))
        /\ IF answer = "synced"
           THEN pc' = pc + 1 /\ result' = result
           ELSE /\ pc' = pc
                /\ result' = Thrown(IF answer = "desync"
                                    THEN "date-and-time" ELSE "remote-failure")
    /\ UNCHANGED <<op, args, keyPair, wallet, seqno, cell, estimated>>
    /\ UNCHANGED page

\* await mnemonicToPrivateKey(mnemonic)
MnemonicToPrivateKey ==
    /\ AtStep("key")
    /\ \E mnemonic \in Mnemonics : keyPair' = SecretKeyOf(mnemonic)
    /\ pc' = pc + 1
    /\ UNCHANGED <<op, args, wallet, seqno, cell, log, result, estimated>>
    /\ UNCHANGED page

\* the code from a fetched wallet and seqno to the next await: gates, then
\* construction
GateAndBuild(w, sq) ==
    LET g == Gate(op, args, w)
    IN  IF g # "ok"
        THEN /\ result' = Thrown(g)
             /\ UNCHANGED <<pc, cell>>
        ELSE \E outcome \in CreateTransferOutcomes(args.walletState,
                                                   MessagesOf(op, args)) :
                IF outcome = "built"
                THEN /\ cell' = Build(op, args, sq, keyPair)
                     /\ pc' = pc + 1
                     /\ result' = result
                ELSE /\ result' = Thrown(outcome)
                     /\ UNCHANGED <<pc, cell>>

\* await getWalletBalance(api, walletState)
GetWalletBalance ==
    /\ AtStep("balance")
    /\ \/ /\ log' = Append(log, Remote("balance", "-", FALSE, "failed"))
          /\ result' = Thrown("remote-failure")
          /\ UNCHANGED <<pc, wallet, seqno, cell>>
       \/ \E b \in 0..MaxBalance, sq \in 0..MaxSeqno :
            LET w == [address |-> args.walletState.rawAddress, balance |-> b]
            IN  /\ log' = Append(log, Remote("balance", "-", TRUE, <<b, sq>>))
                /\ wallet' = w
                /\ seqno' = sq
                /\ GateAndBuild(w, sq)
    /\ UNCHANGED <<op, args, keyPair, estimated>>
    /\ UNCHANGED page

\* await getWalletSeqNo(api, walletState.active.rawAddress)
GetWalletSeqNo ==
    /\ AtStep("seqno")
    /\ \/ /\ log' = Append(log, Remote("seqno", "-", FALSE, "failed"))
          /\ result' = Thrown("remote-failure")
          /\ UNCHANGED <<pc, seqno, cell>>
       \/ \E sq \in 0..MaxSeqno :
            /\ log' = Append(log, Remote("seqno", "-", TRUE, sq))
            /\ seqno' = sq
            /\ GateAndBuild(wallet, sq)
    /\ UNCHANGED <<op, args, keyPair, wallet, estimated>>
    /\ UNCHANGED page

\* await new EmulationApi(..).emulateMessageToAccountEvent(..)
Emulate ==
    /\ AtStep("emulate")
    /\ LET req == EmulateRequest(op, wallet, cell)
       IN  \/ /\ log' = Append(log, Remote("emulate", req, FALSE, "failed"))
              /\ result' = Thrown("remote-failure")
           \/ \E event \in EmulationEvents :
                /\ log' = Append(log, Remote("emulate", req, TRUE, event))
                /\ result' = Returned(ReturnValue(op, event))
    /\ UNCHANGED <<op, pc, args, keyPair, wallet, seqno, cell, estimated>>
    /\ UNCHANGED page

\* faulty variant: a broadcast that failed is left to be tried again
BroadcastRetried ==
    /\ AtStep("broadcast")
    /\ LET req == BroadcastRequest(op, cell)
       IN  \/ /\ log' = Append(log, Remote("broadcast", req, FALSE, "failed"))
              /\ result' = result
           \/ /\ log' = Append(log, Remote("broadcast", req, TRUE, "accepted"))
              /\ result' = Returned(ReturnValue(op, req.boc))
    /\ UNCHANGED <<op, pc, args, keyPair, wallet, seqno, cell, estimated>>
    /\ UNCHANGED page

\* await new BlockchainApi(..).sendBlockchainMessage(..)
Broadcast ==
    /\ AtStep("broadcast")
    /\ LET req == BroadcastRequest(op, cell)
       IN  \/ /\ log' = Append(log, Remote("broadcast", req, FALSE, "failed"))
              /\ result' = Thrown("remote-failure")
           \/ /\ log' = Append(log, Remote("broadcast", req, TRUE, "accepted"))
              /\ result' = Returned(ReturnValue(op, req.boc))
    /\ UNCHANGED <<op, pc, args, keyPair, wallet, seqno, cell, estimated>>
    /\ UNCHANGED page

\* tonConnectTransferError: await seeIfServiceTimeSync(api)
SeeIfServiceTimeSync ==
    /\ AtStep("sync")
    /\ \/ /\ log' = Append(log, Remote("sync", "-", FALSE, "failed"))
          /\ result' = Thrown("remote-failure")
          /\ pc' = pc
       \/ \E isSynced \in BOOLEAN :
            /\ log' = Append(log, Remote("sync", "-", TRUE, isSynced))
            /\ IF ~isSynced
               THEN /\ result' = Returned(ConnectTransferError("date-and-time"))
                    /\ pc' = pc
               ELSE /\ result' = result
                    /\ pc' = pc + 1
    /\ UNCHANGED <<op, args, keyPair, wallet, seqno, cell, estimated>>
    /\ UNCHANGED page

\* tonConnectTransferError: await new AccountsApi(..).getAccount(..), then the
\* comparison of the total with the balance
GetAccount ==
    /\ AtStep("account")
    /\ LET req == [accountId |-> args.walletState.rawAddress]
       IN  \/ /\ log' = Append(log, Remote("account", req, FALSE, "failed"))
              /\ result' = Thrown("remote-failure")
              /\ wallet' = wallet
           \/ \E b \in 0..MaxBalance :
                /\ log' = Append(log, Remote("account", req, TRUE, b))
                /\ wallet' = [address |-> req.accountId, balance |-> b]
                /\ result' = Returned(ConnectTransferError(
                        tonConnectTransferErrorKind(
                            tonConnectTransferTotal(args.params), b)))
    /\ UNCHANGED <<op, pc, args, keyPair, seqno, cell, estimated>>
    /\ UNCHANGED page

\* the caller has the outcome; nothing of the call is kept
Finish ==
    /\ result.kind \in {"thrown", "returned"}
    /\ op' = "idle"
    /\ pc' = 0
    /\ args' = NoArgs
    /\ keyPair' = NoKey
    /\ wallet' = NoWallet
    /\ seqno' = -1
    /\ cell' = NoCell
    /\ log' = <<>>
    /\ result' = NoResult
    /\ estimated' = IF op \in EstimateOps THEN seqno ELSE -1
    /\ UNCHANGED page

Next ==
    \/ \E o \in Operations : Call(o)
    \/ CheckServiceTimeOrDie
    \/ MnemonicToPrivateKey
    \/ GetWalletBalance
    \/ GetWalletSeqNo
    \/ Emulate
    \/ Broadcast
    \/ SeeIfServiceTimeSync
    \/ GetAccount
    \/ Finish

Spec == Init /\ [][Next]_vars

(****************** the wallet-version page: the view ***********************)
selectedAccount == account
appActiveWallet == account.activeTonWallet
currentAccountWalletsVersions == selectedAccount.activeDerivationTonWallets

isLoading == mutation.status = "loading"

\* faulty variant: hiding offered down to the last wallet
canHideLast == Cardinality(currentAccountWalletsVersions) > 0
canHide == Cardinality(currentAccountWalletsVersions) > 1

\* faulty variant: the jettons of a wallet not looked at
walletsToShowNoJettons ==
    {w \in wallets.list :
        \/ ~(w.version \in compatOnly)
        \/ \E item \in currentAccountWalletsVersions : item.version = w.version
        \/ w.tonBalance # 0}

\* a number is truthy when it is not 0
walletsToShow ==
    {w \in wallets.list :
        \/ ~(w.version \in compatOnly)
        \/ \E item \in currentAccountWalletsVersions : item.version = w.version
        \/ w.tonBalance # 0
        \/ w.hasJettons}

isLedger == selectedAccount.type = "ledger"
isKeystone == selectedAccount.type = "keystone"

isWalletAdded(w) ==
    \E item \in currentAccountWalletsVersions :
        item.rawAddress = toRawString(w.address)

\* the wallets rendered as list items
ListItems ==
    IF route = "version" /\ wallets.loaded /\ ~isLedger /\ ~isKeystone
    THEN walletsToShow ELSE {}

\* the buttons rendered
OpenButtons == {w \in ListItems : isWalletAdded(w)}
HideButtons == {w \in ListItems : isWalletAdded(w) /\ canHide}
AddButtons == {w \in ListItems : ~isWalletAdded(w)}

\* a Button rendered with loading set dispatches no click
Clickable == ~isLoading

(***************** the wallet-version page: the handlers ********************)
\* useStandardTonWalletVersions answers
StandardTonWalletVersionsLoaded ==
    /\ route = "version"
    /\ ~wallets.loaded
    /\ \E list \in StandardTonWalletVersions : wallets' = Loaded(list)
    /\ UNCHANGED <<account, compatOnly, mutation, route>>
    /\ UNCHANGED transfer

\* onOpenWallet up to its await, or to its end when the wallet is the active one
onOpenWallet ==
    /\ Clickable
    /\ \E w \in OpenButtons :
        IF toRawString(w.address) # appActiveWallet.rawAddress
        THEN /\ mutation' = Mutation("loading", "select", w.version)
             /\ route' = route
        ELSE /\ mutation' = mutation
             /\ route' = "home"
    /\ UNCHANGED <<account, compatOnly, wallets>>
    /\ UNCHANGED transfer

onAddWallet ==
    /\ Clickable
    /\ \E w \in AddButtons :
        mutation' = Mutation("loading", "create", w.version)
    /\ UNCHANGED <<account, compatOnly, wallets, route>>
    /\ UNCHANGED transfer

onHideWallet ==
    /\ Clickable
    /\ \E w \in HideButtons :
        mutation' = Mutation("loading", "hide", w.version)
    /\ UNCHANGED <<account, compatOnly, wallets, route>>
    /\ UNCHANGED transfer

\* a mutation in flight fails: nothing is stored
MutationFails ==
    /\ isLoading
    /\ mutation' = [mutation EXCEPT !.status = "error"]
    /\ UNCHANGED <<account, compatOnly, wallets, route>>
    /\ UNCHANGED transfer

\* selectWallet is stored; onOpenWallet goes on after its await
SelectWalletSettles ==
    /\ isLoading
    /\ mutation.kind = "select"
    /\ account' = [account EXCEPT !.activeTonWallet = TonWallet(mutation.version)]
    /\ mutation' = [mutation EXCEPT !.status = "success"]
    /\ route' = "home"
    /\ UNCHANGED <<compatOnly, wallets>>
    /\ UNCHANGED transfer

\* createWallet is stored: the wallet of that version is attached
CreateWalletSettles ==
    /\ isLoading
    /\ mutation.kind = "create"
    /\ account' = [account EXCEPT !.activeDerivationTonWallets =
                                        @ \cup {TonWallet(mutation.version)}]
    /\ mutation' = [mutation EXCEPT !.status = "success"]
    /\ UNCHANGED <<compatOnly, wallets, route>>
    /\ UNCHANGED transfer

\* hideWallet is stored: the wallet with that id is detached; when it was the
\* active one, another attached wallet becomes active
HideWalletSettles ==
    /\ isLoading
    /\ mutation.kind = "hide"
    /\ LET rest == {w \in account.activeDerivationTonWallets :
                        w.rawAddress # mutation.walletId}
       IN  \E a \in (IF account.activeTonWallet \in rest \/ rest = {}
                     THEN {account.activeTonWallet} ELSE rest) :
                account' = [account EXCEPT !.activeDerivationTonWallets = rest,
                                           !.activeTonWallet = a]
    /\ mutation' = [mutation EXCEPT !.status = "success"]
    /\ UNCHANGED <<compatOnly, wallets, route>>
    /\ UNCHANGED transfer

\* the user comes back to the wallet-version page
OpenVersionPage ==
    /\ route = "home"
    /\ ~isLoading
    /\ route' = "version"
    /\ UNCHANGED <<account, compatOnly, wallets, mutation>>
    /\ UNCHANGED transfer

VersionInit ==
    /\ NoCall
    /\ account \in Accounts
    /\ compatOnly \in SUBSET ListedVersions
    /\ wallets = NotLoaded
    /\ mutation = NoMutation
    /\ route = "version"

VersionNext ==
    \/ StandardTonWalletVersionsLoaded
    \/ onOpenWallet
    \/ onAddWallet
    \/ onHideWallet
    \/ MutationFails
    \/ SelectWalletSettles
    \/ CreateWalletSettles
    \/ HideWalletSettles
    \/ OpenVersionPage

VersionSpec == VersionInit /\ [][VersionNext]_vars

(***************************** observations ********************************)
Calls(api) == {i \in 1..Len(log) : log[i].api = api}
Called(api) == Calls(api) # {}
Answered(api) == \E i \in Calls(api) : log[i].ok
Constructed == cell # NoCell
Ended == result.kind \in {"thrown", "returned"}
InCall == op \in Ops

(* C1: in every transfer operation the service-time check is the first     *)
(* remote step; when it answers that the service time is out of sync the   *)
(* operation fails with date-and-time, and that operation fetches no       *)
(* balance or seqno, constructs no message, emulates and broadcasts        *)
(* nothing.                                                                *)
C1_TimeCheckFirst ==
    InCall =>
        /\ log # <<>> => log[1].api = "time"
        /\ (Constructed \/ wallet # NoWallet \/ seqno # -1) =>
                (log # <<>> /\ log[1].api = "time" /\ log[1].ret = "synced")
        /\ (log # <<>> /\ log[1].api = "time" /\ log[1].ret = "desync") =>
                /\ result = Thrown("date-and-time")
                /\ Len(log) = 1
                /\ ~Constructed
                /\ wallet = NoWallet
                /\ seqno = -1

C1_Witness ==
    /\ op = "sendTonMultiTransfer"
    /\ log = <<Remote("time", "-", TRUE, "desync")>>
    /\ result = Thrown("date-and-time")

(* C2: a non-max sendTonTransfer whose time check passed and whose balance *)
(* fetch was answered fails with not-enough-balance, constructing and      *)
(* broadcasting nothing, when amount + estimatedFee >= the fetched         *)
(* balance, and otherwise constructs the message and goes on to broadcast  *)
(* it; estimatedFee is minus the 'extra' of the estimation event passed.   *)
C2_SendBalanceGate ==
    (op = "sendTonTransfer" /\ ~args.isMax /\ Answered("balance")) =>
        LET estimatedFee == 0 - args.fee.event.extra
        IN  IF args.weiAmount + estimatedFee >= wallet.balance
            THEN /\ result = Thrown("not-enough-balance")
                 /\ ~Constructed
                 /\ ~Called("broadcast")
            ELSE /\ Constructed
                 /\ result.error # "not-enough-balance"
                 /\ Running => Steps(op)[pc] = "broadcast"
                 /\ Ended => Called("broadcast")

C2_Witness ==
    /\ op = "sendTonTransfer"
    /\ ~args.isMax
    /\ Answered("balance")
    /\ args.fee.event.extra = -1
    /\ args.weiAmount + 1 = wallet.balance
    /\ result = Thrown("not-enough-balance")

(* the sum of the amounts of the messages of the constructed envelope      *)
RECURSIVE SumValueOver(_, _)
SumValueOver(B, S) ==
    IF S = {} THEN 0
    ELSE LET x == CHOOSE y \in S : TRUE
         IN  B[x] * x.value + SumValueOver(B, S \ {x})

Outgoing == SumValueOver(cell.messages, DOMAIN cell.messages)

\* the fee the caller reserved for the transfer
ReservedFee ==
    CASE op = "sendTonTransfer" -> 0 - args.fee.event.extra
      [] op = "sendTonMultiTransfer" -> args.feeEstimate
      [] OTHER -> 0

MaxRequested == op \in SingleOps /\ args.isMax

(* C3 as stated: in every send operation, a broadcast that was not asked   *)
(* as send-max carries messages whose amounts plus the reserved fee do not *)
(* exceed the wallet balance fetched in that call.                         *)
C3_Original ==
    (op \in SendOps /\ Called("broadcast") /\ ~MaxRequested) =>
        /\ Answered("balance")
        /\ Outgoing + ReservedFee <= wallet.balance

(* C3 amended: in sendTonTransfer and sendTonMultiTransfer, a broadcast    *)
(* that was not asked as send-max carries messages whose amounts plus the  *)
(* reserved fee do not exceed the balance fetched in that call, and a      *)
(* send-max broadcast uses the carry-all-remaining-balance flag;           *)
(* sendTonConnectTransfer fetches no balance and broadcasts without any    *)
(* such bound.                                                             *)
C3_Amended ==
    /\ (op \in {"sendTonTransfer", "sendTonMultiTransfer"}
            /\ Called("broadcast") /\ ~MaxRequested) =>
            /\ Answered("balance")
            /\ Outgoing + ReservedFee <= wallet.balance
    /\ (op \in SendOps /\ Called("broadcast") /\ MaxRequested) =>
            HasFlag(cell.sendMode, CARRY_ALL_REMAINING_BALANCE)
    /\ op = "sendTonConnectTransfer" =>
            (~Called("balance") /\ wallet = NoWallet)

C3_Witness ==
    /\ op = "sendTonMultiTransfer"
    /\ Called("broadcast")
    /\ args.feeEstimate > 0
    /\ Outgoing >= 1
    /\ Outgoing + ReservedFee + 1 = wallet.balance

\* the ceilings the claim names
ClaimedCeiling(v) == IF v = "W5" THEN 255 ELSE 4

BatchOps == ConnectOps \cup MultiOps
BatchLength == BagCardinality(MessagesOf(op, args))

\* the time check passed, the fetch was answered and the balance gate, where
\* the operation has one, passed
EarlierGatesPassed ==
    /\ Answered("balance") \/ Answered("seqno")
    /\ result.error # "not-enough-balance"

(* C4 as stated: in every operation that builds a multi-message batch, a   *)
(* batch longer than the version's ceiling (W5: 255, the others: 4) fails  *)
(* with the message-count condition and is neither emulated nor broadcast, *)
(* and a batch within the ceiling proceeds.                                *)
C4_Original ==
    (op \in BatchOps /\ EarlierGatesPassed) =>
        IF BatchLength > ClaimedCeiling(args.walletState.version)
        THEN /\ result = Thrown("too-many-messages")
             /\ ~Called("emulate") /\ ~Called("broadcast")
        ELSE Constructed

(* C4 amended: in estimateTonMultiTransfer and sendTonMultiTransfer, for   *)
(* every wallet version, a batch longer than the version's ceiling         *)
(* (W5: 255, the others: 4) is never emulated nor broadcast, and once the  *)
(* time check and the balance check have passed it fails with the          *)
(* message-count condition, while a batch within the ceiling is            *)
(* constructed and goes on to emulation or broadcast; the TonConnect       *)
(* operations have no message-count gate of their own.                     *)
C4_Amended ==
    /\ (op \in MultiOps
            /\ BatchLength > ClaimedCeiling(args.walletState.version)) =>
            (~Constructed /\ ~Called("emulate") /\ ~Called("broadcast"))
    /\ (op \in MultiOps /\ EarlierGatesPassed) =>
            IF BatchLength > ClaimedCeiling(args.walletState.version)
            THEN result = Thrown("too-many-messages")
            ELSE /\ Constructed
                 /\ Running => Steps(op)[pc] \in {"emulate", "broadcast"}
                 /\ Ended => (Called("emulate") \/ Called("broadcast"))
    /\ op \in ConnectOps => result.error # "too-many-messages"

C4_Witness ==
    /\ op = "sendTonMultiTransfer"
    /\ args.walletState.version = "W5"
    /\ BatchLength = 256
    /\ result = Thrown("too-many-messages")

\* the one message of a constructed single transfer
SingleMessage == CHOOSE m \in DOMAIN cell.messages : TRUE

RecipientIsDns == args.recipient.address.dns
RecipientNonBounceable == args.recipient.address.address = FriendlyNonBounceable
RecipientActive == args.recipient.toAccount.status = "active"

(* C5 as stated: the bounce flag of a single transfer is false for a DNS   *)
(* recipient, false for a non-bounceable literal address whose account is  *)
(* not active, and true otherwise.                                         *)
C5_Original ==
    (op \in SingleOps /\ Constructed) =>
        SingleMessage.bounce =
            JsBool(~(RecipientIsDns \/ (RecipientNonBounceable /\ ~RecipientActive)))

(* C5 amended: the bounce flag of a single transfer is false for a DNS     *)
(* recipient, false for a non-bounceable literal address whatever the      *)
(* status of its account, and for a bounceable literal address (raw        *)
(* addresses count as bounceable) true exactly when the recipient account  *)
(* is active.                                                              *)
C5_Amended ==
    (op \in SingleOps /\ Constructed) =>
        /\ DOMAIN cell.messages = {SingleMessage}
        /\ cell.messages[SingleMessage] = 1
        /\ SingleMessage.bounce =
                JsBool(~RecipientIsDns /\ ~RecipientNonBounceable /\ RecipientActive)

C5_Witness ==
    /\ op = "sendTonTransfer"
    /\ Called("broadcast")
    /\ ~RecipientIsDns /\ RecipientNonBounceable /\ RecipientActive
    /\ SingleMessage.bounce = JsFalse

(* C6: in a TonConnect transfer the bounce value of each message is true   *)
(* unless its address is a friendly address with the non-bounceable flag   *)
(* (a raw address counts as bounceable) and is not an active account of    *)
(* the accounts map (absent from it, or of another status); then it is not *)
(* true.                                                                   *)
C6_BatchBounce ==
    (op \in ConnectOps /\ Constructed) =>
        /\ {m.to : m \in DOMAIN cell.messages}
                = {item.address : item \in DOMAIN args.params.messages}
        /\ \A m \in DOMAIN cell.messages :
                LET nonBounceable == m.to = FriendlyNonBounceable
                    active == /\ m.to \in DOMAIN args.accounts
                              /\ args.accounts[m.to] = "active"
                IN  (m.bounce = JsTrue) <=> ~(nonBounceable /\ ~active)

C6_Witness ==
    /\ op = "sendTonConnectTransfer"
    /\ Called("broadcast")
    /\ \E m \in DOMAIN cell.messages :
            /\ m.to = FriendlyNonBounceable
            /\ m.to \notin DOMAIN args.accounts
            /\ m.bounce # JsTrue
    /\ \E m \in DOMAIN cell.messages : m.to = RawAddr /\ m.bounce = JsTrue

(* C7: a send-max single transfer is constructed with the                  *)
(* carry-all-remaining-balance mode whatever the amount, and both          *)
(* estimateTonTransfer and sendTonTransfer then skip the balance           *)
(* precondition, so that with a fetched balance of zero the call still     *)
(* reaches emulation or broadcast; without send-max the precondition       *)
(* (positive balance in estimation, amount + fee in sending) is applied    *)
(* before construction.                                                    *)
C7_SendMax ==
    (op \in SingleOps /\ Answered("balance")) =>
        IF args.isMax
        THEN /\ Constructed
             /\ HasFlag(cell.sendMode, CARRY_ALL_REMAINING_BALANCE)
             /\ SingleMessage.value = args.weiAmount
             /\ result.error # "not-enough-balance"
             /\ Running => Steps(op)[pc] \in {"emulate", "broadcast"}
             /\ Ended => (Called("emulate") \/ Called("broadcast"))
        ELSE LET refused ==
                    IF op = "estimateTonTransfer"
                    THEN wallet.balance <= 0
                    ELSE args.weiAmount - args.fee.event.extra >= wallet.balance
             IN  /\ refused => (~Constructed /\ result = Thrown("not-enough-balance"))
                 /\ ~refused =>
                        (Constructed
                         /\ ~HasFlag(cell.sendMode, CARRY_ALL_REMAINING_BALANCE))

C7_Witness ==
    /\ op = "sendTonTransfer"
    /\ args.isMax
    /\ args.weiAmount = MaxAmount
    /\ Answered("balance")
    /\ wallet.balance = 0
    /\ Answered("broadcast")

SendModeFlags ==
    {f \in {PAY_GAS_SEPARATELY, IGNORE_ERRORS, CARRY_ALL_REMAINING_BALANCE} :
        HasFlag(cell.sendMode, f)}

(* C8 as stated: a non-max single transfer is constructed with exactly     *)
(* 'pay gas separately', a max single transfer with 'carry all remaining   *)
(* balance + ignore errors', a multi-recipient or TonConnect batch with    *)
(* 'pay gas separately + ignore errors'.                                   *)
C8_Original ==
    Constructed =>
        SendModeFlags =
            CASE op \in SingleOps /\ ~args.isMax -> {PAY_GAS_SEPARATELY}
              [] op \in SingleOps /\ args.isMax ->
                    {CARRY_ALL_REMAINING_BALANCE, IGNORE_ERRORS}
              [] OTHER -> {PAY_GAS_SEPARATELY, IGNORE_ERRORS}

(* C8 amended: a non-max single transfer is constructed with 'pay gas      *)
(* separately + ignore errors', a max single transfer with 'carry all      *)
(* remaining balance + ignore errors', a multi-recipient or TonConnect     *)
(* batch with 'pay gas separately + ignore errors'.                        *)
C8_Amended ==
    Constructed =>
        /\ SendModeFlags =
            CASE op \in SingleOps /\ ~args.isMax ->
                    {PAY_GAS_SEPARATELY, IGNORE_ERRORS}
              [] op \in SingleOps /\ args.isMax ->
                    {CARRY_ALL_REMAINING_BALANCE, IGNORE_ERRORS}
              [] OTHER -> {PAY_GAS_SEPARATELY, IGNORE_ERRORS}
        /\ cell.sendMode \in {PAY_GAS_SEPARATELY + IGNORE_ERRORS,
                              CARRY_ALL_REMAINING_BALANCE + IGNORE_ERRORS}

C8_Witness ==
    /\ op = "estimateTonTransfer"
    /\ ~args.isMax
    /\ Answered("emulate")
    /\ SendModeFlags = {PAY_GAS_SEPARATELY, IGNORE_ERRORS}

(* C9: an estimation operation never calls the broadcast API; it makes at  *)
(* most one emulation call, always with signature checking disabled and    *)
(* with an envelope built with the all-zero placeholder key; when it       *)
(* returns, it made exactly one emulation call and returns that call's     *)
(* answer as it is, and when it fails, it failed before emulating or by    *)
(* the emulation call itself.                                              *)
C9_EstimateNeverBroadcasts ==
    op \in EstimateOps =>
        /\ ~Called("broadcast")
        /\ Cardinality(Calls("emulate")) <= 1
        /\ Constructed => cell.secretKey = ZeroKey
        /\ \A i \in Calls("emulate") :
                /\ log[i].req.ignoreSignatureCheck = TRUE
                /\ log[i].req.boc = Base64(cell)
                /\ log[i].req.boc.base64.secretKey = ZeroKey
                /\ i = Len(log)
        /\ result.kind = "returned" =>
                /\ Cardinality(Calls("emulate")) = 1
                /\ log[Len(log)].ok
                /\ result.value.v =
                        IF op = "estimateTonMultiTransfer"
                        THEN log[Len(log)].ret
                        ELSE [event |-> log[Len(log)].ret]
        /\ result.kind = "thrown" =>
                \A i \in Calls("emulate") : ~log[i].ok

C9_Witness ==
    /\ op = "estimateTonConnectTransfer"
    /\ result.kind = "returned"
    /\ result.value.v.event.extra = -MaxFee

(* C10 as stated: every submission operation, when its broadcast call      *)
(* succeeds, returns the base64 text of the envelope it broadcast.         *)
C10_Original ==
    (op \in SendOps /\ Answered("broadcast")) =>
        /\ result.kind = "returned"
        /\ result.value.type = "string"
        /\ result.value.v = log[Len(log)].req.boc

(* C10 amended: when its broadcast call succeeds, sendTonConnectTransfer   *)
(* returns the base64 text of the envelope it broadcast, sendTonTransfer   *)
(* returns nothing (undefined) and sendTonMultiTransfer returns true.      *)
C10_Amended ==
    (op \in SendOps /\ Answered("broadcast")) =>
        /\ result.kind = "returned"
        /\ log[Len(log)].req.boc = Base64(cell)
        /\ op = "sendTonConnectTransfer" =>
                /\ result.value.type = "string"
                /\ result.value.v = log[Len(log)].req.boc
        /\ op = "sendTonTransfer" => result.value = Undefined
        /\ op = "sendTonMultiTransfer" => result.value = JsValue("boolean", TRUE)

C10_Witness ==
    /\ op = "sendTonConnectTransfer"
    /\ Answered("broadcast")
    /\ result.kind = "returned"
    /\ result.value = JsValue("string", Base64(cell))
    /\ BatchLength > 1


\* the remote fetches of the sequence number made by this call
SeqnoFetches == {i \in 1..Len(log) : log[i].api \in {"balance", "seqno"}}
\* the sequence number an answered fetch gave
FetchedSeqno(e) == IF e.api = "balance" THEN e.ret[2] ELSE e.ret

(* C11: in every submission operation the sequence number of the signed    *)
(* message is the one a remote fetch of this same call answered; that      *)
(* fetch is the only one of the call, comes after the time check has       *)
(* passed and the key has been derived, and is the last remote call before *)
(* construction (only the broadcast follows it); the sequence number an    *)
(* earlier estimation fetched plays no part.                               *)
C11_FreshSeqno ==
    (op \in SendOps /\ Constructed) =>
        /\ Cardinality(SeqnoFetches) = 1
        /\ \A i \in SeqnoFetches :
            /\ log[i].ok
            /\ cell.seqno = FetchedSeqno(log[i])
            /\ i = 2
            /\ log[1].api = "time" /\ log[1].ok /\ log[1].ret = "synced"
            /\ keyPair # NoKey
            /\ cell.secretKey = keyPair
            /\ \A j \in (i + 1)..Len(log) : log[j].api = "broadcast"
            /\ ~Called("broadcast") => i = Len(log)

C11_Witness ==
    /\ op = "sendTonConnectTransfer"
    /\ Constructed
    /\ estimated = 0
    /\ cell.seqno = 1
    /\ log[Len(log)] = Remote("seqno", "-", TRUE, 1)

\* a wallet of that version is attached to the selected account
Attached(version) ==
    version \in {item.version : item \in account.activeDerivationTonWallets}

(* C12: once the listed wallets are loaded, a wallet is in the filtered    *)
(* list if and only if its version is not backward-compatibility-only, or  *)
(* a wallet of its version is attached to the selected account, or its TON *)
(* balance is not zero, or it holds jettons; on the page of an account     *)
(* that is neither ledger nor keystone the list items are exactly these.   *)
C12_Filtering ==
    wallets.loaded =>
        /\ \A w \in wallets.list :
              w \in walletsToShow <=>
                  \/ w.version \notin compatOnly
                  \/ Attached(w.version)
                  \/ w.tonBalance > 0
                  \/ w.hasJettons
        /\ (route = "version" /\ account.type = "mnemonic") =>
              ListItems = walletsToShow

C12_Witness ==
    /\ wallets.loaded
    /\ route = "version"
    /\ account.type = "mnemonic"
    /\ compatOnly = ListedVersions
    /\ \E u, v, x \in wallets.list :
        /\ ~Attached(u.version) /\ u.tonBalance = 0 /\ ~u.hasJettons
        /\ u \notin ListItems
        /\ Attached(v.version) /\ v.tonBalance = 0 /\ ~v.hasJettons
        /\ v \in ListItems
        /\ ~Attached(x.version) /\ x.tonBalance = 0 /\ x.hasJettons
        /\ x \in ListItems

RemoteApis == {"time", "balance", "seqno", "emulate", "broadcast"}
GateFailures == {"date-and-time", "not-enough-balance", "too-many-messages"}

(* C13: a transfer operation issues each of its remote calls (time check,  *)
(* balance or seqno fetch, emulation, broadcast) at most once; a remote    *)
(* call that fails is the last one of the call and the operation ends      *)
(* with that failure; an operation ended by a gate has issued no remote    *)
(* call after the one whose answer the gate judged, so it has emulated and *)
(* broadcast nothing; one call of a send operation broadcasts at most one  *)
(* message.                                                                *)
C13_NoRetry ==
    InCall =>
        /\ \A api \in RemoteApis : Cardinality(Calls(api)) <= 1
        /\ Cardinality(Calls("balance") \cup Calls("seqno")) <= 1
        /\ \A i \in 1..Len(log) :
              ~log[i].ok => (i = Len(log) /\ result = Thrown("remote-failure"))
        /\ (result.kind = "thrown" /\ result.error \in GateFailures) =>
              /\ log # <<>>
              /\ log[Len(log)].api \in {"time", "balance"}
              /\ log[Len(log)].ok
              /\ ~Called("emulate")
              /\ ~Called("broadcast")
        /\ result.kind = "thrown" => ~Running
        /\ op \in SendOps => Cardinality(Calls("broadcast")) <= 1

C13_Witness ==
    /\ op = "sendTonMultiTransfer"
    /\ Len(log) = 3
    /\ log[3].api = "broadcast"
    /\ ~log[3].ok
    /\ result = Thrown("remote-failure")

\* the answer of the time-sync call of this call, and of its account fetch
SyncAnswered(isSynced) ==
    /\ log # <<>>
    /\ log[1].api = "sync"
    /\ log[1].ok
    /\ log[1].ret = isSynced
AccountAnswered == \E i \in Calls("account") : log[i].ok
PayloadTotal == SumAmountOver(args.params.messages, DOMAIN args.params.messages)

(* C14: tonConnectTransferError never ends with a thrown gate failure (a   *)
(* throw is a failed remote call); when the service time is out of sync it *)
(* returns {kind: 'date-and-time'} without fetching the account; when the  *)
(* time is in sync and the account was fetched it returns                  *)
(* {kind: 'not-enough-balance'} if the sum of the payload's amounts, with  *)
(* no fee added, is greater than or equal to the balance, and              *)
(* {kind: undefined} otherwise.                                            *)
C14_ErrorPrecedence ==
    op = "tonConnectTransferError" =>
        /\ result.kind = "thrown" => result.error = "remote-failure"
        /\ SyncAnswered(FALSE) =>
              /\ result = Returned(ConnectTransferError("date-and-time"))
              /\ ~Called("account")
        /\ Called("account") => SyncAnswered(TRUE)
        /\ AccountAnswered =>
              result = Returned(ConnectTransferError(
                          IF PayloadTotal >= wallet.balance
                          THEN "not-enough-balance" ELSE JsUndefined))
        /\ result.kind = "returned" => (SyncAnswered(FALSE) \/ AccountAnswered)

C14_Witness ==
    /\ op = "tonConnectTransferError"
    /\ SyncAnswered(TRUE)
    /\ AccountAnswered
    /\ PayloadTotal = 2
    /\ wallet.balance = 2
    /\ result = Returned(ConnectTransferError("not-enough-balance"))

\* what the balance check of a batch operation compares with the balance
BatchTotal ==
    SumWeiOver(args.transferMessages, DOMAIN args.transferMessages)
        + (IF op = "sendTonMultiTransfer" THEN args.feeEstimate ELSE 0)
OverCeiling ==
    BagCardinality(args.transferMessages) >
        MAX_ALLOWED_WALLET_MSGS[args.walletState.version]
TimeCheckPassed ==
    log # <<>> /\ log[1].api = "time" /\ log[1].ok /\ log[1].ret = "synced"

\* the call ended with the failure e
Threw(e) == result.kind = "thrown" /\ result.error = e

(* C15: in estimateTonMultiTransfer and sendTonMultiTransfer the balance   *)
(* is fetched only after the time check has passed; once it is fetched, a  *)
(* batch that is over the version's message ceiling and whose total        *)
(* exceeds the fetched balance fails with not-enough-balance, and the      *)
(* message-count failure is given only for a batch over the ceiling whose  *)
(* total does not exceed the fetched balance.                              *)
C15_GateOrder ==
    (op \in MultiOps /\ Called("balance")) =>
        /\ TimeCheckPassed
        /\ Answered("balance") =>
            /\ (OverCeiling /\ BatchTotal > wallet.balance) =>
                    Threw("not-enough-balance")
            /\ Threw("too-many-messages") =>
                    (OverCeiling /\ BatchTotal <= wallet.balance)
            /\ Threw("not-enough-balance") =>
                    BatchTotal >= wallet.balance

C15_Witness ==
    /\ op = "sendTonMultiTransfer"
    /\ Answered("balance")
    /\ OverCeiling
    /\ BatchTotal > wallet.balance
    /\ wallet.balance > 0
    /\ Threw("not-enough-balance")

AttachedWallets == account.activeDerivationTonWallets

=============================================================================
